---- MODULE Spec2Model ----
(***************************************************************************)
(* Model of flameshot-helper (src/screenshot.py): the ScreenshotPaths      *)
(* path derivation and the linear orchestration of main().                 *)
(*                                                                         *)
(* A Python str is a finite sequence of atoms.  An atom is one character   *)
(* ("/", "%", "H", "~", a digit) or an opaque chunk of text that holds no  *)
(* separator and no directive ("user", "host", "mkdir -p ").               *)
(***************************************************************************)
EXTENDS Integers, Sequences, FiniteSets, TLC

VARIABLES
    file,            \* the parsed content of the configuration file, as on disk
    config,          \* the dict main() loaded; ScreenshotPaths.config aliases it
    dt,              \* datetime.datetime.now() taken at line 192
    pc,              \* position of the run
    self_sftp_enabled, \* ScreenshotPaths.sftp_enabled
    nConstruct,      \* how many times ScreenshotPaths(config, dt) has completed
    lastRead,        \* the last property read from the ScreenshotPaths object
    calls,           \* the steps invoked so far, each with its exit status
    localFile,       \* the path save_file wrote, None before
    xdg_path,        \* main's local xdg_path
    notify_summary,  \* main's local notify_summary
    notify_body      \* main's local notify_body

vars == <<file, config, dt, pc, self_sftp_enabled, nConstruct, lastRead,
          calls, localFile, xdg_path, notify_summary, notify_body>>

----------------------------------------------------------------------------
(* Bounds *)

MaxFnameLen == 3

MaxDirLen == 2

MaxConstruct == 2

----------------------------------------------------------------------------
(* Python values *)

\* Python's None: a reserved one-atom value no str of the model equals.
None == <<"<None>">>

\* The empty dict, the default of config.get("sftp", {}).
EmptyDict == [k \in {} |-> None]

\* dict.get(key, default)
Get(d, k, default) == IF k \in DOMAIN d THEN d[k] ELSE default

\* truth value of a str-or-None: None and "" are falsy
TruthyStr(s) == s # None /\ s # <<>>

\* "{}".format(x)
Format(x) == IF x = None THEN <<"None">> ELSE x

\* all sequences over S of length at most n
RECURSIVE SeqsUpTo(_, _)
SeqsUpTo(S, n) ==
    IF n = 0 THEN {<<>>}
    ELSE LET shorter == SeqsUpTo(S, n - 1)
         IN  shorter \cup {Append(s, c) : s \in {t \in shorter : Len(t) = n - 1}, c \in S}

----------------------------------------------------------------------------
(* posixpath *)

\* p.rfind("/") + 1, 1-based: the index of the last separator, 0 if none
RECURSIVE LastSep(_)
LastSep(p) ==
    IF p = <<>> THEN 0
    ELSE IF p[Len(p)] = "/" THEN Len(p)
    ELSE LastSep(SubSeq(p, 1, Len(p) - 1))

\* p.rstrip("/")
RECURSIVE RStripSep(_)
RStripSep(p) ==
    IF p # <<>> /\ p[Len(p)] = "/" THEN RStripSep(SubSeq(p, 1, Len(p) - 1))
    ELSE p

\* os.path.dirname
Dirname(p) ==
    LET head == SubSeq(p, 1, LastSep(p))
    IN  IF head # <<>> /\ RStripSep(head) # <<>> THEN RStripSep(head) ELSE head

\* os.path.basename
Basename(p) == SubSeq(p, LastSep(p) + 1, Len(p))

\* os.path.join(a, b)
Join(a, b) ==
    IF b # <<>> /\ b[1] = "/" THEN b
    ELSE IF a = <<>> \/ a[Len(a)] = "/" THEN a \o b
    ELSE a \o <<"/">> \o b

\* the HOME of the invoking user
HomeDir == <<"/", "home">>

\* os.path.expanduser: "~" alone or "~/..." is replaced by HOME; no other
\* user is known, so "~name" is returned unchanged
ExpandUser(p) ==
    IF p = <<>> \/ p[1] # "~" THEN p
    ELSE IF Len(p) >= 2 /\ p[2] # "/" THEN p
    ELSE LET r == RStripSep(HomeDir) \o SubSeq(p, 2, Len(p))
         IN  IF r = <<>> THEN <<"/">> ELSE r

----------------------------------------------------------------------------
(* datetime.strftime *)

Digit(n) == <<"0", "1", "2", "3", "4", "5", "6", "7", "8", "9">>[n + 1]

\* one conversion: %H is the zero-padded hour, %% a percent sign; glibc copies
\* any other conversion through unchanged
Directive(c, d) ==
    IF c = "H" THEN <<Digit(d.hour \div 10), Digit(d.hour % 10)>>
    ELSE IF c = "%" THEN <<"%">>
    ELSE <<"%", c>>

RECURSIVE Strftime(_, _)
Strftime(t, d) ==
    IF t = <<>> THEN <<>>
    ELSE IF t[1] = "%" /\ Len(t) >= 2
         THEN Directive(t[2], d) \o Strftime(SubSeq(t, 3, Len(t)), d)
    ELSE <<t[1]>> \o Strftime(Tail(t), d)

----------------------------------------------------------------------------
(* ScreenshotPaths *)

\* ScreenshotPaths.__init__: the value of sftp_enabled, whether the constructor
\* raises (KeyError on a missing sftp.directory, IndexError on an empty one),
\* and the configuration it leaves behind
InitEnabled(cfg) == Get(Get(cfg, "sftp", EmptyDict), "enabled", FALSE)

InitRaises(cfg) ==
    /\ InitEnabled(cfg)
    /\ \/ "directory" \notin DOMAIN cfg.sftp
       \/ cfg.sftp.directory = <<>>

\* faulty variant: the separator is appended without looking at the last character
InitConfigAlwaysAppend(cfg) ==
    IF InitEnabled(cfg) /\ ~InitRaises(cfg)
    THEN [cfg EXCEPT !.sftp.directory = @ \o <<"/">>]
    ELSE cfg

InitConfig(cfg) ==
    IF InitEnabled(cfg) /\ ~InitRaises(cfg)
       /\ cfg.sftp.directory[Len(cfg.sftp.directory)] # "/"
    THEN [cfg EXCEPT !.sftp.directory = @ \o <<"/">>]
    ELSE cfg

formatted_relative_path == Strftime(config.fname, dt)

relative_dirname == Dirname(formatted_relative_path)

relative_basename == Basename(formatted_relative_path)

local_path == Join(ExpandUser(config.directory), formatted_relative_path)

local_folder == Dirname(local_path)

remote_directory ==
    IF ~self_sftp_enabled THEN None
    ELSE Join(config.sftp.directory, relative_dirname)

remote_path ==
    IF ~self_sftp_enabled THEN None
    ELSE Join(remote_directory, relative_basename)

\* faulty variant: no early return when remote publishing is disabled
remote_url_unguarded ==
    LET sftp == Get(config, "sftp", EmptyDict)
        baseurl == Get(sftp, "baseurl", None)
    IN  IF ~TruthyStr(baseurl) THEN None
        ELSE Format(baseurl) \o Format(formatted_relative_path)

\* faulty variant: "if baseurl is None" in place of "if not baseurl"
remote_url_none_check ==
    IF ~self_sftp_enabled THEN None
    ELSE LET baseurl == Get(config.sftp, "baseurl", None)
         IN  IF baseurl = None THEN None
             ELSE Format(baseurl) \o Format(formatted_relative_path)

remote_url ==
    IF ~self_sftp_enabled THEN None
    ELSE LET baseurl == Get(config.sftp, "baseurl", None)
         IN  IF ~TruthyStr(baseurl) THEN None
             ELSE Format(baseurl) \o Format(formatted_relative_path)

remote_rsync_path ==
    IF ~self_sftp_enabled THEN None
    ELSE (Format(config.sftp.user) \o <<"@">> \o Format(config.sftp.host)
          \o <<":">> \o Format(config.sftp.directory))
         \o Format(formatted_relative_path)

PropertyNames ==
    {"formatted_relative_path", "relative_dirname", "relative_basename",
     "local_path", "local_folder", "remote_directory", "remote_path",
     "remote_url", "remote_rsync_path"}

Property(name) ==
    CASE name = "formatted_relative_path" -> formatted_relative_path
      [] name = "relative_dirname" -> relative_dirname
      [] name = "relative_basename" -> relative_basename
      [] name = "local_path" -> local_path
      [] name = "local_folder" -> local_folder
      [] name = "remote_directory" -> remote_directory
      [] name = "remote_path" -> remote_path
      [] name = "remote_url" -> remote_url
      [] name = "remote_rsync_path" -> remote_rsync_path

----------------------------------------------------------------------------
(* Inputs: configuration files and timestamps *)

\* a template is well formed when every "%" starts a conversion strftime knows
RECURSIVE WellFormed(_)
WellFormed(t) ==
    IF t = <<>> THEN TRUE
    ELSE IF t[1] = "%"
         THEN Len(t) >= 2 /\ t[2] \in {"H", "%"} /\ WellFormed(SubSeq(t, 3, Len(t)))
    ELSE WellFormed(Tail(t))

\* the "fname" templates: literal text, separators and conversions
Fnames == {t \in SeqsUpTo({"/", "%", "H"}, MaxFnameLen) : WellFormed(t)}

\* the remote base directories
RemoteDirs == SeqsUpTo({"/", "d"}, MaxDirLen)

BaseUrls == {<<>>, <<"https:", "/", "/", "img", "/">>}

Timestamps == {[hour |-> 9], [hour |-> 14]}

\* r, and r extended with key k bound to each value of V: an optional key
Opt(R, k, V) == R \cup {r @@ (k :> v) : r \in R, v \in V}

\* the "sftp" records: user, host, key and port are always given
SftpBase == {[user |-> <<"user">>, host |-> <<"host">>, key |-> <<"key">>, port |-> <<"22">>]}

PathsSftp == Opt(Opt(Opt(SftpBase, "enabled", BOOLEAN), "baseurl", BaseUrls),
                 "directory", RemoteDirs)

MainRemoteDirs == {<<"/", "d">>, <<>>}

MainSftp == Opt(Opt(Opt({s @@ ("directory" :> d) : s \in SftpBase, d \in MainRemoteDirs},
                        "enabled", BOOLEAN), "baseurl", BaseUrls),
                "clipboard", BOOLEAN)

Required == {[directory |-> <<"~", "/", "s">>, fname |-> t] : t \in Fnames}

PathsConfigs == Opt(Required, "sftp", PathsSftp)

MainConfigs == Opt(Opt(Opt(Required, "sftp", MainSftp), "notify", BOOLEAN),
                   "open", BOOLEAN)

\* what open() or json.load raise on a missing or malformed file
Unreadable == {[error |-> "FileNotFoundError"], [error |-> "JSONDecodeError"]}

NoRead == [name |-> "", value |-> None]

----------------------------------------------------------------------------
(* The ScreenshotPaths object on its own: construction and property reads *)

PathsInit ==
    /\ file \in PathsConfigs
    /\ config = file
    /\ dt \in Timestamps
    /\ pc = "new"
    /\ self_sftp_enabled = FALSE
    /\ nConstruct = 0
    /\ lastRead = NoRead
    /\ calls = <<>>
    /\ localFile = None
    /\ xdg_path = None
    /\ notify_summary = None
    /\ notify_body = None

\* paths = ScreenshotPaths(config, dt), for the first time or again
Construct ==
    /\ pc \in {"new", "ready"}
    /\ nConstruct < MaxConstruct
    /\ IF InitRaises(config)
       THEN /\ pc' = "raised"
            /\ UNCHANGED <<config, self_sftp_enabled, nConstruct>>
       ELSE /\ pc' = "ready"
            /\ config' = InitConfig(config)
            /\ self_sftp_enabled' = InitEnabled(config)
            /\ nConstruct' = nConstruct + 1
    /\ UNCHANGED <<file, dt, lastRead, calls, localFile, xdg_path,
                   notify_summary, notify_body>>

\* paths.<name>
Read(name) ==
    /\ pc = "ready"
    /\ lastRead' = [name |-> name, value |-> Property(name)]
    /\ UNCHANGED <<file, config, dt, pc, self_sftp_enabled, nConstruct, calls,
                   localFile, xdg_path, notify_summary, notify_body>>

ReadAny == \E name \in PropertyNames : Read(name)

PathsNext == Construct \/ ReadAny

SpecPaths == PathsInit /\ [][PathsNext]_vars

----------------------------------------------------------------------------
(* External commands *)

ExitCodes == {0, 1}

\* faulty variant: the exit status is never looked at
CheckOutputIgnoresStatus(rc) == FALSE

\* subprocess.check_output raises CalledProcessError on a non-zero exit
CheckOutputRaises(rc) == rc # 0

\* subprocess.run without check=True returns whatever the exit status
RunRaises(rc) == FALSE

Call(cmd, argv, rc) == [cmd |-> cmd, argv |-> argv, rc |-> rc]

create_rsync_cmd(local, remote) ==
    <<<<"rsync">>, <<"-Pr">>, <<"--no-R">>, <<"--no-implied-dirs">>,
      <<"-p">>, <<"--chmod=F775">>, local, remote>>

create_ssh_mkdir_cmd(cfg, path) ==
    <<<<"ssh">>, <<"-i">>, cfg.sftp.key, <<"-p">>, Format(cfg.sftp.port),
      Format(cfg.sftp.user) \o <<"@">> \o Format(cfg.sftp.host),
      <<"mkdir -p ">> \o Format(path)>>

flameshot_cmd == <<<<"flameshot">>, <<"gui">>, <<"-r">>>>

kde_notify_cmd(fname, url) == <<<<"notify-send">>, fname, url>>

kde_set_clipboard_cmd(text) ==
    <<<<"qdbus">>, <<"org.kde.klipper">>, <<"/klipper">>,
      <<"setClipboardContents">>, text>>

xdg_open_cmd(path) == <<<<"xdg-open">>, path>>

----------------------------------------------------------------------------
(* main *)

Init ==
    /\ file \in MainConfigs \cup Unreadable
    /\ config = EmptyDict
    /\ dt \in Timestamps
    /\ pc = "start"
    /\ self_sftp_enabled = FALSE
    /\ nConstruct = 0
    /\ lastRead = NoRead
    /\ calls = <<>>
    /\ localFile = None
    /\ xdg_path = None
    /\ notify_summary = None
    /\ notify_body = None

\* line 198: config = read_config(config_location)
read_config ==
    /\ pc = "start"
    /\ IF "error" \in DOMAIN file
       THEN /\ calls' = Append(calls, Call("read_config", <<>>, 1))
            /\ pc' = "aborted"
            /\ UNCHANGED config
       ELSE /\ calls' = Append(calls, Call("read_config", <<>>, 0))
            /\ pc' = "capture"
            /\ config' = file
    /\ UNCHANGED <<file, dt, self_sftp_enabled, nConstruct, lastRead, localFile,
                   xdg_path, notify_summary, notify_body>>

\* line 202: raw_data = flameshot()
flameshot ==
    /\ pc = "capture"
    /\ \E rc \in ExitCodes :
          /\ calls' = Append(calls, Call("flameshot", flameshot_cmd, rc))
          /\ pc' = IF CheckOutputRaises(rc) THEN "aborted" ELSE "paths"
    /\ UNCHANGED <<file, config, dt, self_sftp_enabled, nConstruct, lastRead,
                   localFile, xdg_path, notify_summary, notify_body>>

\* line 204: paths = ScreenshotPaths(config, dt)
new_paths ==
    /\ pc = "paths"
    /\ IF InitRaises(config)
       THEN /\ pc' = "aborted"
            /\ UNCHANGED <<config, self_sftp_enabled, nConstruct>>
       ELSE /\ pc' = "makedirs"
            /\ config' = InitConfig(config)
            /\ self_sftp_enabled' = InitEnabled(config)
            /\ nConstruct' = nConstruct + 1
    /\ UNCHANGED <<file, dt, lastRead, calls, localFile, xdg_path,
                   notify_summary, notify_body>>

\* line 207: os.makedirs(paths.local_folder, exist_ok=True)
makedirs ==
    /\ pc = "makedirs"
    /\ \E rc \in ExitCodes :
          /\ calls' = Append(calls, Call("makedirs", <<local_folder>>, rc))
          /\ pc' = IF rc # 0 THEN "aborted" ELSE "save"
    /\ UNCHANGED <<file, config, dt, self_sftp_enabled, nConstruct, lastRead,
                   localFile, xdg_path, notify_summary, notify_body>>

\* faulty variant: the upload starts without the remote mkdir
AfterSaveSkipMkdir == IF InitEnabled(config) THEN "rsync" ELSE "notify"

\* line 217: the branch on sftp_enabled after the local write
AfterSave == IF InitEnabled(config) THEN "ssh" ELSE "notify"

\* lines 210-217: save_file(raw_data, paths.local_path), then the defaults of
\* xdg_path, notify_summary and notify_body.  A failed write may leave the
\* file created or not; open() of a path that ends with a separator raises.
save_file ==
    /\ pc = "save"
    /\ \E rc \in IF Basename(local_path) = <<>> THEN {1} ELSE ExitCodes :
          /\ calls' = Append(calls, Call("save_file", <<local_path>>, rc))
          /\ IF rc # 0
             THEN /\ pc' = "aborted"
                  /\ localFile' \in {None, local_path}
                  /\ UNCHANGED <<xdg_path, notify_summary, notify_body>>
             ELSE /\ pc' = AfterSave
                  /\ localFile' = local_path
                  /\ xdg_path' = local_path
                  /\ notify_summary' = relative_basename
                  /\ notify_body' = local_path
    /\ UNCHANGED <<file, config, dt, self_sftp_enabled, nConstruct, lastRead>>

\* lines 220-223: the remote mkdir over ssh
ssh_mkdir ==
    /\ pc = "ssh"
    /\ \E rc \in ExitCodes :
          /\ calls' = Append(calls,
                Call("ssh", create_ssh_mkdir_cmd(config, remote_directory), rc))
          /\ pc' = IF CheckOutputRaises(rc) THEN "aborted" ELSE "rsync"
    /\ UNCHANGED <<file, config, dt, self_sftp_enabled, nConstruct, lastRead,
                   localFile, xdg_path, notify_summary, notify_body>>

\* lines 225-228: the rsync transfer
rsync ==
    /\ pc = "rsync"
    /\ \E rc \in ExitCodes :
          /\ calls' = Append(calls,
                Call("rsync", create_rsync_cmd(local_path, remote_rsync_path), rc))
          /\ pc' = IF CheckOutputRaises(rc) THEN "aborted" ELSE "clipboard"
    /\ UNCHANGED <<file, config, dt, self_sftp_enabled, nConstruct, lastRead,
                   localFile, xdg_path, notify_summary, notify_body>>

\* faulty variant: the clipboard flag alone decides
ClipboardCondFlagOnly == Get(config.sftp, "clipboard", FALSE)

\* faulty variant: the notification body is the URL whether or not one is configured
RemoteNotifyBodyUrlOnly == remote_url

\* line 230: the clipboard is set when both the flag and a base URL are given
ClipboardCond ==
    /\ Get(config.sftp, "clipboard", FALSE)
    /\ TruthyStr(Get(config.sftp, "baseurl", None))

\* lines 234-239: the open target and the notification body after an upload
RemoteXdgPath ==
    IF TruthyStr(Get(config.sftp, "baseurl", None)) THEN remote_url ELSE None

RemoteNotifyBody ==
    IF TruthyStr(Get(config.sftp, "baseurl", None)) THEN remote_url ELSE remote_path

\* lines 230-239: kde_set_clipboard(paths.remote_url) when asked for, then the
\* choice of xdg_path and notify_body
set_clipboard ==
    /\ pc = "clipboard"
    /\ IF ClipboardCond
       THEN \E rc \in ExitCodes :
               /\ calls' = Append(calls,
                     Call("qdbus", kde_set_clipboard_cmd(remote_url), rc))
               /\ IF CheckOutputRaises(rc)
                  THEN /\ pc' = "aborted"
                       /\ UNCHANGED <<xdg_path, notify_body>>
                  ELSE /\ pc' = "notify"
                       /\ xdg_path' = RemoteXdgPath
                       /\ notify_body' = RemoteNotifyBody
       ELSE /\ pc' = "notify"
            /\ xdg_path' = RemoteXdgPath
            /\ notify_body' = RemoteNotifyBody
            /\ UNCHANGED calls
    /\ UNCHANGED <<file, config, dt, self_sftp_enabled, nConstruct, lastRead,
                   localFile, notify_summary>>

\* line 244
NotifyCond == Get(config, "notify", FALSE)

\* faulty variant: kde_notify checks the exit status like the other two wrappers
KdeNotifyChecked(rc) == rc # 0

\* lines 72-75: kde_notify runs notify-send with subprocess.run
KdeNotifyRaises(rc) == RunRaises(rc)

\* lines 244-246: kde_notify(notify_summary, notify_body)
notify ==
    /\ pc = "notify"
    /\ IF NotifyCond
       THEN \E rc \in ExitCodes :
               /\ calls' = Append(calls,
                     Call("notify-send", kde_notify_cmd(notify_summary, notify_body), rc))
               /\ pc' = IF KdeNotifyRaises(rc) THEN "aborted" ELSE "open"
       ELSE /\ pc' = "open"
            /\ UNCHANGED calls
    /\ UNCHANGED <<file, config, dt, self_sftp_enabled, nConstruct, lastRead,
                   localFile, xdg_path, notify_summary, notify_body>>

\* faulty variant: the open flag alone decides
OpenCondFlagOnly == Get(config, "open", FALSE)

\* line 248
OpenCond == TruthyStr(xdg_path) /\ Get(config, "open", FALSE)

\* lines 248-250: xdg_open(xdg_path)
xdg_open ==
    /\ pc = "open"
    /\ IF OpenCond
       THEN \E rc \in ExitCodes :
               /\ calls' = Append(calls, Call("xdg-open", xdg_open_cmd(xdg_path), rc))
               /\ pc' = IF CheckOutputRaises(rc) THEN "aborted" ELSE "done"
       ELSE /\ pc' = "done"
            /\ UNCHANGED calls
    /\ UNCHANGED <<file, config, dt, self_sftp_enabled, nConstruct, lastRead,
                   localFile, xdg_path, notify_summary, notify_body>>

Next ==
    \/ read_config
    \/ flameshot
    \/ new_paths
    \/ makedirs
    \/ save_file
    \/ ssh_mkdir
    \/ rsync
    \/ set_clipboard
    \/ notify
    \/ xdg_open

Spec == Init /\ [][Next]_vars

----------------------------------------------------------------------------
(* Vocabulary of the properties, read off the configuration file *)

\* remote publishing is enabled: the sftp record is there and its flag is true
EnabledIn(f) == "sftp" \in DOMAIN f /\ "enabled" \in DOMAIN f.sftp /\ f.sftp.enabled

\* a non-empty base URL is configured
HasBaseUrl(f) ==
    "sftp" \in DOMAIN f /\ "baseurl" \in DOMAIN f.sftp /\ f.sftp.baseurl # <<>>

\* a top-level flag is present and true
FlagSet(f, k) == k \in DOMAIN f /\ f[k]

ClipboardFlagSet(f) ==
    "sftp" \in DOMAIN f /\ "clipboard" \in DOMAIN f.sftp /\ f.sftp.clipboard

RemoteProperties ==
    {"remote_directory", "remote_path", "remote_url", "remote_rsync_path"}

DesktopCommands == {"qdbus", "notify-send", "xdg-open"}

CallsOf(cmd) == {i \in DOMAIN calls : calls[i].cmd = cmd}

\* the place of a step in the order load, capture, local write, upload, desktop
Rank(cmd) ==
    CASE cmd = "read_config" -> 1
      [] cmd = "flameshot" -> 2
      [] cmd = "makedirs" -> 3
      [] cmd = "save_file" -> 4
      [] cmd = "ssh" -> 5
      [] cmd = "rsync" -> 6
      [] cmd = "qdbus" -> 7
      [] cmd = "notify-send" -> 8
      [] cmd = "xdg-open" -> 9

\* the step that must have succeeded right before cmd, "" for the desktop steps
Predecessor(cmd) ==
    CASE cmd = "flameshot" -> "read_config"
      [] cmd = "makedirs" -> "flameshot"
      [] cmd = "save_file" -> "makedirs"
      [] cmd = "ssh" -> "save_file"
      [] cmd = "rsync" -> "ssh"
      [] OTHER -> ""

\* b is what follows the last separator of p
IsBasenameOf(b, p) ==
    /\ \A i \in DOMAIN b : b[i] # "/"
    /\ \E k \in 0..Len(p) :
          /\ SubSeq(p, k + 1, Len(p)) = b
          /\ k = 0 \/ p[k] = "/"

\* the run is past the notification step
PastNotify ==
    \/ pc \in {"open", "done"}
    \/ pc = "aborted" /\ calls # <<>> /\ calls[Len(calls)].cmd = "xdg-open"

----------------------------------------------------------------------------
(* Properties of main, checked under Spec *)

\* C1: a non-zero exit of the remote mkdir or of the rsync transfer aborts the
\* run at once: nothing is invoked after it (no transfer, clipboard,
\* notification or open, and no second attempt), and the local file written
\* before stays where it is.
C1_RemoteFailureAborts ==
    /\ \A i \in DOMAIN calls :
          calls[i].cmd \in {"ssh", "rsync"} /\ calls[i].rc # 0
          => /\ i = Len(calls)
             /\ pc = "aborted"
             /\ localFile = local_path
    /\ Cardinality(CallsOf("ssh")) <= 1
    /\ Cardinality(CallsOf("rsync")) <= 1

\* the transfer failed in a run that had the clipboard, the notification and
\* the open step all asked for
C1_Witness ==
    /\ calls # <<>>
    /\ calls[Len(calls)].cmd = "rsync"
    /\ calls[Len(calls)].rc # 0
    /\ ClipboardFlagSet(file) /\ HasBaseUrl(file)
    /\ FlagSet(file, "notify") /\ FlagSet(file, "open")

\* C2, as stated: a non-zero exit of any desktop command (clipboard,
\* notification, open) aborts the run, so nothing is invoked after it.
C2_DesktopFailureAborts ==
    \A i \in DOMAIN calls :
        calls[i].cmd \in DesktopCommands /\ calls[i].rc # 0
        => i = Len(calls) /\ pc = "aborted"

\* C2, amended: a non-zero exit of the clipboard or of the open command aborts
\* the run; a non-zero exit of the notification command is ignored, the run
\* goes on to the open step and invokes it exactly when its condition holds.
C2_ClipboardOpenAbortNotifyContinues ==
    \A i \in DOMAIN calls :
        /\ calls[i].cmd \in {"qdbus", "xdg-open"} /\ calls[i].rc # 0
           => i = Len(calls) /\ pc = "aborted"
        /\ calls[i].cmd = "notify-send" /\ calls[i].rc # 0
           => \/ pc = "open" /\ i = Len(calls)
              \/ /\ pc \in {"done", "aborted"}
                 /\ IF FlagSet(file, "open") /\ TruthyStr(xdg_path)
                    THEN /\ Len(calls) = i + 1
                         /\ calls[i + 1].cmd = "xdg-open"
                         /\ pc = "aborted" <=> calls[i + 1].rc # 0
                    ELSE i = Len(calls) /\ pc = "done"

\* the notification command failed and the open command was invoked after it
C2_Witness ==
    \E i \in DOMAIN calls :
        /\ calls[i].cmd = "notify-send" /\ calls[i].rc # 0
        /\ i < Len(calls)
        /\ calls[i + 1].cmd = "xdg-open"

C5_Notification ==
    /\ ~FlagSet(file, "notify") => CallsOf("notify-send") = {}
    /\ PastNotify /\ FlagSet(file, "notify") => CallsOf("notify-send") # {}
    /\ \A i \in CallsOf("notify-send") :
          /\ Len(calls[i].argv) = 3
          /\ IsBasenameOf(calls[i].argv[2], Strftime(file.fname, dt))
          /\ calls[i].argv[3] =
                IF EnabledIn(file)
                THEN IF HasBaseUrl(file) THEN remote_url ELSE remote_path
                ELSE local_path
          /\ calls[i].argv[3] # None

\* a notification whose body is the remote path, below a subdirectory
C5_Witness ==
    \E i \in CallsOf("notify-send") :
        /\ EnabledIn(file) /\ ~HasBaseUrl(file)
        /\ calls[i].argv[3] = remote_path
        /\ Len(calls[i].argv[2]) < Len(Strftime(file.fname, dt))

\* C6: the open handler is invoked only with the open flag set and a non-empty
\* target; its argument is the value chosen as notification body, the local
\* path with remote publishing disabled and the remote URL with it enabled and
\* a base URL configured; with remote publishing enabled and no base URL it is
\* never invoked.
C6_Open ==
    /\ \A i \in CallsOf("xdg-open") :
          LET target == calls[i].argv[2]
          IN  /\ FlagSet(file, "open")
              /\ TruthyStr(target)
              /\ target = notify_body
              /\ \A n \in CallsOf("notify-send") : calls[n].argv[3] = target
              /\ target = IF EnabledIn(file) THEN remote_url ELSE local_path
    /\ EnabledIn(file) /\ ~HasBaseUrl(file) => CallsOf("xdg-open") = {}
    /\ pc = "done" /\ FlagSet(file, "open") /\ (EnabledIn(file) => HasBaseUrl(file))
       => CallsOf("xdg-open") # {}

\* the open handler invoked on the remote URL after the notification
C6_Witness ==
    /\ CallsOf("xdg-open") # {}
    /\ CallsOf("notify-send") # {}
    /\ EnabledIn(file)
    /\ xdg_path = remote_url

\* C7: the clipboard is set only with remote publishing enabled, the clipboard
\* flag set and a non-empty base URL, only after the remote mkdir and the
\* transfer both succeeded, and to the remote URL: the base URL followed by
\* the formatted relative path.
C7_Clipboard ==
    \A i \in CallsOf("qdbus") :
        /\ EnabledIn(file) /\ ClipboardFlagSet(file) /\ HasBaseUrl(file)
        /\ \E m, r \in 1..(i - 1) :
              /\ m < r
              /\ calls[m].cmd = "ssh" /\ calls[m].rc = 0
              /\ calls[r].cmd = "rsync" /\ calls[r].rc = 0
        /\ calls[i].argv[Len(calls[i].argv)]
              = file.sftp.baseurl \o Strftime(file.fname, dt)
        /\ calls[i].argv[Len(calls[i].argv)] = remote_url

\* the clipboard set with success
C7_Witness == \E i \in CallsOf("qdbus") : calls[i].rc = 0

----------------------------------------------------------------------------
(* Properties of ScreenshotPaths, checked under SpecPaths *)

\* C4: with remote publishing disabled (no sftp record, or its enabled flag
\* missing or false) the four remote properties are None, whatever the
\* timestamp and the other sftp fields.
C4_DisabledRemoteAbsent ==
    pc = "ready" /\ ~EnabledIn(file)
    => /\ remote_directory = None
       /\ remote_path = None
       /\ remote_url = None
       /\ remote_rsync_path = None
       /\ lastRead.name \in RemoteProperties => lastRead.value = None

\* remote_url read as None from a configuration whose sftp record has a base
\* URL and a directory but no enabled flag
C4_Witness ==
    /\ pc = "ready"
    /\ "sftp" \in DOMAIN file
    /\ "enabled" \notin DOMAIN file.sftp
    /\ HasBaseUrl(file)
    /\ "directory" \in DOMAIN file.sftp
    /\ lastRead = [name |-> "remote_url", value |-> None]

\* C8: construction leaves the remote base directory with one separator
\* appended when it ended with none and unchanged when it ended with one, and
\* nothing else of the configuration changed; no later property read and no
\* further construction changes the configuration; with remote publishing
\* disabled, or when the constructor raises, the configuration is as loaded.
C8_NormalizedOnce ==
    /\ pc \in {"new", "raised"} => config = file
    /\ pc = "ready" /\ ~EnabledIn(file) => config = file
    /\ pc = "ready" /\ EnabledIn(file)
       => LET d == file.sftp.directory
          IN  /\ d # <<>>
              /\ config = [file EXCEPT !.sftp.directory =
                              IF d[Len(d)] = "/" THEN d ELSE d \o <<"/">>]

\* a second construction and a property read over a directory that had no
\* trailing separator
C8_Witness ==
    /\ pc = "ready"
    /\ nConstruct = 2
    /\ lastRead.name = "remote_directory"
    /\ EnabledIn(file)
    /\ file.sftp.directory = <<"d">>
    /\ config.sftp.directory = <<"d", "/">>

\* C9: with remote publishing enabled and no base URL, or an empty one,
\* remote_url is None while remote_directory, remote_path and
\* remote_rsync_path are non-empty strings.
C9_NoBaseUrl ==
    pc = "ready" /\ EnabledIn(file) /\ ~HasBaseUrl(file)
    => /\ remote_url = None
       /\ TruthyStr(remote_directory)
       /\ TruthyStr(remote_path)
       /\ TruthyStr(remote_rsync_path)
       /\ lastRead.name = "remote_url" => lastRead.value = None
       /\ lastRead.name \in RemoteProperties \ {"remote_url"}
          => TruthyStr(lastRead.value)

\* remote_path read from a configuration with an empty base URL
C9_Witness ==
    /\ pc = "ready"
    /\ EnabledIn(file)
    /\ "baseurl" \in DOMAIN file.sftp
    /\ file.sftp.baseurl = <<>>
    /\ lastRead.name = "remote_path"
    /\ TruthyStr(lastRead.value)

\* C10: with remote publishing enabled the rsync destination is
\* "{user}@{host}:" followed by remote_path, so that remote_directory, the
\* directory the remote mkdir creates, is the parent of the destination.
C10_RsyncAgreesWithMkdir ==
    pc = "ready" /\ self_sftp_enabled
    => remote_rsync_path
          = config.sftp.user \o <<"@">> \o config.sftp.host \o <<":">> \o remote_path

====
